---- MODULE Spec2Model ----
(***************************************************************************)
(* Model of the Zed Swift extension (src/src/swift.rs and                  *)
(* src/src/language_server.rs): the SwiftExtension facade, the             *)
(* SourceKitLsp binary resolver and label synthesizer, and the debug       *)
(* configuration translation.                                              *)
(*                                                                         *)
(* Conventions                                                             *)
(*   Option<T>   : a sequence of length <= 1 (None == <<>>, Some(x) ==     *)
(*                 <<x>>).                                                 *)
(*   Result<T,E> : [ok |-> TRUE, val |-> v] or [ok |-> FALSE, err |-> e].  *)
(*   messages    : an error message is the tuple <<fixed text, argument>>, *)
(*                 the argument of a message without one being "".         *)
(*   env / map   : a set of <<key, value>> pairs with distinct keys.       *)
(*   text        : strings whose bytes matter (labels, details, names) are *)
(*                 sequences of one-character strings (ASCII, so that a    *)
(*                 byte offset is an index); opaque strings (paths, ids)   *)
(*                 are TLA+ strings.                                       *)
(*   JSON        : a JSON value is a record of a tag t and one payload per *)
(*                 tag; a JSON text is [valid, top], the members of a top  *)
(*                 object being <<key, value>> pairs in document order.    *)
(***************************************************************************)
EXTENDS Integers, Sequences, FiniteSets, TLC

VARIABLES
    sourcekit_lsp,   \* SwiftExtension.sourcekit_lsp : Option<SourceKitLsp>
    lspSettings,     \* host settings store: server id -> Result<LspSettings>
    whichTable,      \* worktree search path: command name -> Option<path>
    ret,             \* the call being returned to the host (one in flight)
    previousCommand  \* history: what the last returned language_server_command
                     \* call for sourcekit-lsp answered, if there was one

vars == <<sourcekit_lsp, lspSettings, whichTable, ret, previousCommand>>

----------------------------------------------------------------------------
(* Bounds of the model *)

MaxPid == 1          \* process ids 1..MaxPid are tried as `pid`
MaxArgs == 1         \* configured argument lists have up to MaxArgs elements
MaxNameLen == 1      \* symbol names have 1..MaxNameLen+1 characters

----------------------------------------------------------------------------
(* Option and Result *)

None == <<>>
Some(x) == <<x>>
IsSome(o) == Len(o) = 1
IsNone(o) == Len(o) = 0
Unwrap(o) == o[1]
UnwrapOr(o, d) == IF IsSome(o) THEN o[1] ELSE d
Option(T) == {None} \cup {Some(x) : x \in T}

Ok(v) == [ok |-> TRUE, val |-> v]
Err(e) == [ok |-> FALSE, err |-> e]

----------------------------------------------------------------------------
(* Program constants *)

SERVER_ID == "sourcekit-lsp"
ADAPTER_NAME == "Swift"
XcrunFallbackPath == "/usr/bin/xcrun"

get_executable_args == <<>>

\* The two messages of dap_request_kind and get_dap_binary (the source writes
\* the field name between backquotes).
UnexpectedRequest ==
    "Unexpected value for 'request' key in Swift debug adapter configuration: "
MissingRequest ==
    "Missing required 'request' field in Swift debug adapter configuration"

----------------------------------------------------------------------------
(* The host side: identifiers, settings, worktree *)

ServerIds == {SERVER_ID, "other-lsp"}
AdapterNames == {ADAPTER_NAME, "CodeLLDB"}
WhichNames == {SERVER_ID, "swiftly", "xcrun", "lldb-dap"}

FoundPath(name) ==
    CASE name = SERVER_ID -> "/found/sourcekit-lsp"
      [] name = "swiftly" -> "/found/swiftly"
      [] name = "xcrun" -> "/found/xcrun"
      [] name = "lldb-dap" -> "/found/lldb-dap"

ConfiguredPath == "/configured/sourcekit-lsp"
UserAdapterPath == "/user/lldb-dap"
RootPath == "/worktree"
ShellEnv == {<<"PATH", "/usr/bin">>, <<"HOME", "/home/dev">>}
SettingsEnv == {<<"SOURCEKIT_LOGGING", "3">>}

ArgLists == {a \in UNION {[1..n -> {"--log-level"}] : n \in 0..MaxArgs} : TRUE}

\* zed::settings::CommandSettings { path, arguments, env }
CommandSettingsSet ==
    [path : Option({ConfiguredPath}),
     arguments : Option(ArgLists),
     env : {Some(SettingsEnv)}]

\* Result<LspSettings>: Err when the settings cannot be read.
LspSettingsSet(id) ==
    IF id = SERVER_ID
    THEN {Err("settings")} \cup
         {Ok([binary |-> b, initialization_options |-> Some("opts")]) :
              b \in Option(CommandSettingsSet)}
    ELSE {Err("settings"),
          Ok([binary |-> None, initialization_options |-> None])}

\* The worktree handed to a call: what which(), shell_env(), root_path() and
\* LspSettings::for_worktree() answer for it.
Worktree ==
    [settings |-> lspSettings,
     which |-> whichTable,
     shell_env |-> ShellEnv,
     root_path |-> RootPath]

for_worktree(id, worktree) == worktree.settings[id]
which(worktree, name) == worktree.which[name]

NoRet == [op |-> "none"]

----------------------------------------------------------------------------
(* SourceKitLsp: binary resolution (language_server.rs 25-66) *)

\* Faulty variant: the worktree lookup is consulted before the settings.
language_server_binary_which_first(language_server_id, worktree) ==
    LET lsp_settings == for_worktree(language_server_id, worktree) IN
    IF ~lsp_settings.ok THEN Err(lsp_settings.err)
    ELSE IF IsSome(which(worktree, SERVER_ID))
    THEN Ok([path |-> Unwrap(which(worktree, SERVER_ID)),
             args |-> Some(get_executable_args)])
    ELSE IF IsSome(lsp_settings.val.binary)
            /\ IsSome(Unwrap(lsp_settings.val.binary).path)
    THEN Ok([path |-> Unwrap(Unwrap(lsp_settings.val.binary).path),
             args |-> Unwrap(lsp_settings.val.binary).arguments])
    ELSE Ok([path |-> XcrunFallbackPath, args |-> Some(<<SERVER_ID>>)])

\* Faulty variant: the fallback is used even when the worktree lookup succeeds.
language_server_binary_skip_which(language_server_id, worktree) ==
    LET lsp_settings == for_worktree(language_server_id, worktree) IN
    IF ~lsp_settings.ok THEN Err(lsp_settings.err)
    ELSE IF IsSome(lsp_settings.val.binary)
            /\ IsSome(Unwrap(lsp_settings.val.binary).path)
    THEN Ok([path |-> Unwrap(Unwrap(lsp_settings.val.binary).path),
             args |-> Unwrap(lsp_settings.val.binary).arguments])
    ELSE Ok([path |-> XcrunFallbackPath, args |-> Some(<<SERVER_ID>>)])

\* Faulty variant: a failed worktree lookup is reported as an error.
language_server_binary_no_fallback(language_server_id, worktree) ==
    LET lsp_settings == for_worktree(language_server_id, worktree) IN
    IF ~lsp_settings.ok THEN Err(lsp_settings.err)
    ELSE IF IsSome(lsp_settings.val.binary)
            /\ IsSome(Unwrap(lsp_settings.val.binary).path)
    THEN Ok([path |-> Unwrap(Unwrap(lsp_settings.val.binary).path),
             args |-> Unwrap(lsp_settings.val.binary).arguments])
    ELSE IF IsSome(which(worktree, SERVER_ID))
    THEN Ok([path |-> Unwrap(which(worktree, SERVER_ID)),
             args |-> Some(get_executable_args)])
    ELSE Err("sourcekit-lsp not found")

language_server_binary(language_server_id, worktree) ==
    LET lsp_settings == for_worktree(language_server_id, worktree) IN
    IF ~lsp_settings.ok THEN Err(lsp_settings.err)
    ELSE IF IsSome(lsp_settings.val.binary)
            /\ IsSome(Unwrap(lsp_settings.val.binary).path)
    THEN Ok([path |-> Unwrap(Unwrap(lsp_settings.val.binary).path),
             args |-> Unwrap(lsp_settings.val.binary).arguments])
    ELSE IF IsSome(which(worktree, SERVER_ID))
    THEN Ok([path |-> Unwrap(which(worktree, SERVER_ID)),
             args |-> Some(get_executable_args)])
    ELSE Ok([path |-> XcrunFallbackPath, args |-> Some(<<SERVER_ID>>)])

\* Faulty variant: the environment is left empty.
SourceKitLsp_language_server_command_empty_env(language_server_id, worktree) ==
    LET binary == language_server_binary(language_server_id, worktree) IN
    IF ~binary.ok THEN Err(binary.err)
    ELSE Ok([command |-> binary.val.path,
             args |-> UnwrapOr(binary.val.args, get_executable_args),
             env |-> {}])

SourceKitLsp_language_server_command(language_server_id, worktree) ==
    LET binary == language_server_binary(language_server_id, worktree) IN
    IF ~binary.ok THEN Err(binary.err)
    ELSE Ok([command |-> binary.val.path,
             args |-> UnwrapOr(binary.val.args, get_executable_args),
             env |-> worktree.shell_env])

----------------------------------------------------------------------------
(* Text helpers: a text is a sequence of one-character strings *)

\* str::find(ch): byte offset of the first occurrence
Find(s, ch) ==
    IF \E i \in 1..Len(s) : s[i] = ch
    THEN Some((CHOOSE i \in 1..Len(s) :
                  s[i] = ch /\ \A j \in 1..(i - 1) : s[j] # ch) - 1)
    ELSE None

Range(a, b) == [start |-> a, end |-> b]
literal(text, highlight_name) ==
    [t |-> "literal", text |-> text, highlight_name |-> highlight_name]
code_range(a, b) == [t |-> "code_range", start |-> a, end |-> b]

EnumCasePrefix ==
    <<"e","n","u","m"," ","E","n","u","m"," ","{"," ","c","a","s","e"," ">>
FuncPrefix == <<"f","u","n","c"," ">>
TypealiasPrefix == <<"t","y","p","e","a","l","i","a","s"," ">>
VarPrefix == <<"v","a","r"," ">>
VarVariable == <<"v","a","r"," ","v","a","r","i","a","b","l","e">>
VarLetPrefix == <<"v","a","r","/","l","e","t"," ">>
ClassPrefix == <<"c","l","a","s","s"," ">>
StructPrefix == <<"s","t","r","u","c","t"," ">>
EnumPrefix == <<"e","n","u","m"," ">>

----------------------------------------------------------------------------
(* SourceKitLsp: label synthesis (language_server.rs 68-210) *)

CompletionKinds ==
    {"Class", "Enum", "Interface", "Keyword", "Module", "Struct", "EnumMember",
     "Function", "TypeParameter", "Value", "Variable", "Method"}
SymbolKinds ==
    {"Method", "Function", "Variable", "Constant", "Class", "Struct", "Enum",
     "Namespace"}

Labels ==
    {<<"f","o","o","(",")">>, <<"f","o","o">>, <<"b","a","r","(","x",":",")">>}
Details == {None, Some(<<>>), Some(<<"I","n","t">>)}
Completions == [label : Labels, kind : Option(CompletionKinds), detail : Details]

SymbolNames == {[i \in 1..n |-> "s"] : n \in 1..(MaxNameLen + 1)}
Symbols == [name : SymbolNames, kind : SymbolKinds]

\* Class | Enum | Interface | Keyword | Module | Struct (lines 74-86)
type_like_label(kind, label) ==
    LET highlight_name ==
            IF kind \in {"Class", "Interface", "Enum", "Struct"}
            THEN Some("type")
            ELSE IF kind = "Keyword" THEN Some("keyword") ELSE None
    IN Some([code |-> <<>>,
             filter_range |-> Range(0, Len(label)),
             spans |-> <<literal(label, highlight_name)>>])

\* Faulty variant: the filter range is the whole label.
enum_member_label_whole_filter(label) ==
    LET start == EnumCasePrefix
        code == start \o label \o <<" ", "}">>
    IN Some([code |-> code,
             spans |-> <<code_range(Len(start), Len(start) + Len(label))>>,
             filter_range |-> Range(0, Len(label))])

\* EnumMember (lines 87-99)
enum_member_label(label) ==
    LET start == EnumCasePrefix
        code == start \o label \o <<" ", "}">>
    IN Some([code |-> code,
             spans |-> <<code_range(Len(start), Len(start) + Len(label))>>,
             filter_range |-> Range(0, UnwrapOr(Find(label, "("), Len(label)))])

\* Faulty variant: the arrow is written whenever a detail is present, empty or not.
function_label_arrow_for_empty(label, detail) ==
    LET func == FuncPrefix
        return_type ==
            IF IsSome(detail)
            THEN <<" ", "-", ">", " ">> \o Unwrap(detail)
            ELSE <<>>
        before_braces == func \o label \o return_type
        code == before_braces \o <<" ", "{", "}">>
    IN IF IsNone(Find(label, "(")) THEN None
       ELSE Some([code |-> code,
                  spans |-> <<code_range(Len(func), Len(before_braces))>>,
                  filter_range |-> Range(0, Unwrap(Find(label, "(")))])

\* Function (lines 100-118)
function_label(label, detail) ==
    LET func == FuncPrefix
        return_type ==
            IF IsSome(detail) /\ Unwrap(detail) # <<>>
            THEN <<" ", "-", ">", " ">> \o Unwrap(detail)
            ELSE <<>>
        before_braces == func \o label \o return_type
        code == before_braces \o <<" ", "{", "}">>
    IN IF IsNone(Find(label, "(")) THEN None
       ELSE Some([code |-> code,
                  spans |-> <<code_range(Len(func), Len(before_braces))>>,
                  filter_range |-> Range(0, Unwrap(Find(label, "(")))])

\* TypeParameter (lines 119-128)
type_parameter_label(label, detail) ==
    IF IsNone(detail) THEN None
    ELSE LET typealias == TypealiasPrefix
             code == typealias \o label \o <<" ", "=", " ">> \o Unwrap(detail)
         IN Some([spans |-> <<code_range(Len(typealias), Len(code))>>,
                  code |-> code,
                  filter_range |-> Range(0, Len(label))])

\* Faulty variant: a value without detail gets no label, as a variable does.
value_label_detail_required(label, detail) ==
    IF IsNone(detail) THEN None
    ELSE LET type == IF Unwrap(detail) # <<>>
                     THEN <<":", " ">> \o Unwrap(detail)
                     ELSE <<>>
             var == VarVariable \o type \o <<" ", "=", " ">>
             code == var \o label
         IN Some([spans |-> <<code_range(Len(var), Len(code))>>,
                  code |-> code,
                  filter_range |-> Range(0, Len(label))])

\* Value (lines 129-146)
value_label(label, detail) ==
    LET type == IF IsSome(detail) /\ Unwrap(detail) # <<>>
                THEN <<":", " ">> \o Unwrap(detail)
                ELSE <<>>
        var == VarVariable \o type \o <<" ", "=", " ">>
        code == var \o label
    IN Some([spans |-> <<code_range(Len(var), Len(code))>>,
             code |-> code,
             filter_range |-> Range(0, Len(label))])

\* Faulty variant: the highlighted range starts at the keyword.
variable_label_from_keyword(label, detail) ==
    IF IsNone(detail) THEN None
    ELSE LET var == VarPrefix
             code == var \o label \o <<":", " ">> \o Unwrap(detail)
         IN Some([spans |-> <<code_range(0, Len(code))>>,
                  code |-> code,
                  filter_range |-> Range(0, Len(label))])

\* Variable (lines 147-156)
variable_label(label, detail) ==
    IF IsNone(detail) THEN None
    ELSE LET var == VarPrefix
             code == var \o label \o <<":", " ">> \o Unwrap(detail)
         IN Some([spans |-> <<code_range(Len(var), Len(code))>>,
                  code |-> code,
                  filter_range |-> Range(0, Len(label))])

SourceKitLsp_label_for_completion(completion) ==
    IF IsNone(completion.kind) THEN None
    ELSE LET kind == Unwrap(completion.kind)
             label == completion.label
             detail == completion.detail
         IN
    CASE kind \in {"Class", "Enum", "Interface", "Keyword", "Module", "Struct"} ->
           type_like_label(kind, label)
      [] kind = "EnumMember" -> enum_member_label(label)
      [] kind = "Function" -> function_label(label, detail)
      [] kind = "TypeParameter" -> type_parameter_label(label, detail)
      [] kind = "Value" -> value_label(label, detail)
      [] kind = "Variable" -> variable_label(label, detail)
      [] OTHER -> None

SymbolLabel(prefix, name) ==
    LET code == prefix \o name
    IN Some([code |-> code,
             spans |-> <<code_range(0, Len(code))>>,
             filter_range |-> Range(0, Len(name))])

SourceKitLsp_label_for_symbol(symbol) ==
    CASE symbol.kind \in {"Method", "Function"} -> SymbolLabel(FuncPrefix, symbol.name)
      [] symbol.kind \in {"Variable", "Constant"} ->
           SymbolLabel(VarLetPrefix, symbol.name)
      [] symbol.kind = "Class" -> SymbolLabel(ClassPrefix, symbol.name)
      [] symbol.kind = "Struct" -> SymbolLabel(StructPrefix, symbol.name)
      [] symbol.kind = "Enum" -> SymbolLabel(EnumPrefix, symbol.name)
      [] OTHER -> None

----------------------------------------------------------------------------
(* JSON values and texts *)

JValue(t, s, n, b, m, o) == [t |-> t, s |-> s, n |-> n, b |-> b, m |-> m, o |-> o]
JStr(s) == JValue("string", s, 0, FALSE, {}, <<>>)
JNum(n) == JValue("number", "", n, FALSE, {}, <<>>)
JBool(b) == JValue("bool", "", 0, b, {}, <<>>)
JNull == JValue("null", "", 0, FALSE, {}, <<>>)
\* a nested object (env): its payload m is the set of <<key, string>> pairs
JMap(pairs) == JValue("map", "", 0, FALSE, pairs, <<>>)
\* a top-level object: its payload o is the members in document order
JObject(members) == JValue("object", "", 0, FALSE, {}, members)

ValidText(top) == [valid |-> TRUE, top |-> top]
InvalidText == [valid |-> FALSE, top |-> JNull]

\* serde_json::Value of a text, as the host parses it: an object becomes a
\* map in which the last member of a repeated key wins.
LastOf(members, key) ==
    LET idx == {i \in 1..Len(members) : members[i][1] = key}
    IN members[CHOOSE i \in idx : \A j \in idx : j <= i][2]

ParseValue(text) ==
    IF text.top.t = "object"
    THEN LET members == text.top.o
             keys == {members[i][1] : i \in 1..Len(members)}
         IN JObject([k \in keys |-> LastOf(members, k)])
    ELSE text.top

\* serde_json::Value::get(key)
ValueGet(value, key) ==
    IF value.t = "object" /\ key \in DOMAIN value.o THEN Some(value.o[key]) ELSE None

\* impl PartialEq<str> for Value
ValueEqStr(value, s) == value.t = "string" /\ value.s = s

----------------------------------------------------------------------------
(* SwiftDebugConfig and its serde implementation (swift.rs 20-34) *)

ConfigKeys == {"cwd", "env", "program", "pid", "request", "stopOnEntry"}

\* Deserialize of one field: Option<String>, HashMap<String, String>,
\* Option<u32>, String, Option<bool>
DeserializeField(key, value) ==
    CASE key \in {"cwd", "program"} ->
           IF value.t = "null" THEN Ok(None)
           ELSE IF value.t = "string" THEN Ok(Some(value.s))
           ELSE Err(<<"invalid type", key>>)
      [] key = "env" ->
           IF value.t = "map" THEN Ok(value.m) ELSE Err(<<"invalid type", key>>)
      [] key = "pid" ->
           IF value.t = "null" THEN Ok(None)
           \* u32: the numbers of the model all lie below 2^32, so only the
           \* lower end of the range is checked
           ELSE IF value.t = "number" /\ value.n >= 0
           THEN Ok(Some(value.n))
           ELSE Err(<<"invalid value", key>>)
      [] key = "request" ->
           IF value.t = "string" THEN Ok(value.s) ELSE Err(<<"invalid type", key>>)
      [] key = "stopOnEntry" ->
           IF value.t = "null" THEN Ok(None)
           ELSE IF value.t = "bool" THEN Ok(Some(value.b))
           ELSE Err(<<"invalid type", key>>)

\* The fields not yet seen hold None; serde(default) and Option leave an
\* absent field at its default, and `request` alone is required.
RECURSIVE DeserializeMembers(_, _, _)
DeserializeMembers(members, i, seen) ==
    IF i > Len(members)
    THEN IF IsNone(seen["request"])
         THEN Err(<<"missing field", "request">>)
         ELSE Ok([cwd |-> UnwrapOr(seen["cwd"], None),
                  env |-> UnwrapOr(seen["env"], {}),
                  program |-> UnwrapOr(seen["program"], None),
                  pid |-> UnwrapOr(seen["pid"], None),
                  request |-> Unwrap(seen["request"]),
                  stop_on_entry |-> UnwrapOr(seen["stopOnEntry"], None)])
    ELSE LET key == members[i][1]
             value == members[i][2]
         IN IF key \notin ConfigKeys
            THEN DeserializeMembers(members, i + 1, seen)
            ELSE IF IsSome(seen[key])
            THEN Err(<<"duplicate field", key>>)
            ELSE LET field == DeserializeField(key, value)
                 IN IF ~field.ok THEN Err(field.err)
                    ELSE DeserializeMembers(members, i + 1,
                             [seen EXCEPT ![key] = Some(field.val)])

\* Faulty variant: `program` is required when `request` is "launch".
from_str_program_required(text) ==
    IF ~text.valid THEN Err(<<"expected value", "">>)
    ELSE IF text.top.t # "object" THEN Err(<<"invalid type", "">>)
    ELSE LET parsed == DeserializeMembers(text.top.o, 1, [k \in ConfigKeys |-> None])
         IN IF parsed.ok /\ parsed.val.request = "launch" /\ IsNone(parsed.val.program)
            THEN Err(<<"missing field", "program">>)
            ELSE parsed

\* serde_json::from_str::<SwiftDebugConfig>
from_str(text) ==
    IF ~text.valid THEN Err(<<"expected value", "">>)
    ELSE IF text.top.t # "object" THEN Err(<<"invalid type", "">>)
    ELSE DeserializeMembers(text.top.o, 1, [k \in ConfigKeys |-> None])

OptMember(key, opt) == IF IsSome(opt) THEN <<(<<key, Unwrap(opt)>>)>> ELSE <<>>

\* serde_json::to_string(&SwiftDebugConfig): camelCase names, the fields in
\* declaration order, the None options skipped.
to_string(config) ==
    ValidText(JObject(
        OptMember("cwd", IF IsSome(config.cwd) THEN Some(JStr(Unwrap(config.cwd))) ELSE None)
        \o <<(<<"env", JMap(config.env)>>)>>
        \o OptMember("program",
               IF IsSome(config.program) THEN Some(JStr(Unwrap(config.program))) ELSE None)
        \o OptMember("pid", IF IsSome(config.pid) THEN Some(JNum(Unwrap(config.pid))) ELSE None)
        \o <<(<<"request", JStr(config.request)>>)>>
        \o OptMember("stopOnEntry",
               IF IsSome(config.stop_on_entry)
               THEN Some(JBool(Unwrap(config.stop_on_entry))) ELSE None)))

----------------------------------------------------------------------------
(* Inputs of the debug-adapter calls *)

Pids == 1..MaxPid

RequestChoices ==
    {None, Some(JStr("launch")), Some(JStr("attach")), Some(JStr("debug")),
     Some(JNum(1))}
ProgramChoices == {None, Some(JStr("/bin/app")), Some(JBool(TRUE))}
PidChoices == {None} \cup {Some(JNum(n)) : n \in Pids \cup {-1}}
\* cwd, env, stopOnEntry and a field the struct does not know
RestChoices ==
    {[cwd |-> None, env |-> None, stop |-> None, extra |-> None],
     [cwd |-> Some(JStr("/cwd")), env |-> Some(JMap({<<"K", "V">>})),
      stop |-> Some(JBool(TRUE)), extra |-> Some(JStr("x"))]}

ConfigTexts ==
    {InvalidText, ValidText(JStr("launch"))} \cup
    {ValidText(JObject(
         OptMember("cwd", rest.cwd) \o OptMember("env", rest.env)
         \o OptMember("program", program) \o OptMember("pid", pid)
         \o OptMember("request", request) \o OptMember("stopOnEntry", rest.stop)
         \o OptMember("name", rest.extra))) :
       request \in RequestChoices, program \in ProgramChoices,
       pid \in PidChoices, rest \in RestChoices}

\* zed_extension_api::DebugConfig
LaunchRequests ==
    {[variant |-> "Launch", program |-> "/bin/app", cwd |-> c, args |-> <<>>, envs |-> e] :
        c \in Option({"/cwd"}), e \in {{}, {<<"K", "V">>}}}
AttachRequests ==
    {[variant |-> "Attach", process_id |-> p] : p \in Option(Pids)}
DebugConfigs ==
    [label : {"debug app"}, adapter : AdapterNames,
     request : LaunchRequests \cup AttachRequests,
     stop_on_entry : Option(BOOLEAN)]

----------------------------------------------------------------------------
(* SwiftExtension: the pure part of each handler (swift.rs 45-212) *)

SwiftExtension_language_server_command(language_server_id, worktree) ==
    IF language_server_id = SERVER_ID
    THEN SourceKitLsp_language_server_command(language_server_id, worktree)
    ELSE Err(<<"Unknown language server: ", language_server_id>>)

SwiftExtension_language_server_initialization_options(language_server_id, worktree) ==
    LET lsp_settings == for_worktree(language_server_id, worktree)
        initialization_options ==
            IF lsp_settings.ok
            THEN UnwrapOr(lsp_settings.val.initialization_options, "null")
            ELSE "null"
    IN Ok(Some(initialization_options))

\* Faulty variant: the server identifier is not matched.
label_for_completion_any_id(self, language_server_id, completion) ==
    IF IsNone(self) THEN None
    ELSE SourceKitLsp_label_for_completion(completion)

SwiftExtension_label_for_completion(self, language_server_id, completion) ==
    IF language_server_id = SERVER_ID
    THEN IF IsNone(self) THEN None
         ELSE SourceKitLsp_label_for_completion(completion)
    ELSE None

\* Faulty variant: symbol labels are synthesized without the instance.
label_for_symbol_without_instance(self, language_server_id, symbol) ==
    IF language_server_id = SERVER_ID
    THEN SourceKitLsp_label_for_symbol(symbol)
    ELSE None

SwiftExtension_label_for_symbol(self, language_server_id, symbol) ==
    IF language_server_id = SERVER_ID
    THEN IF IsNone(self) THEN None
         ELSE SourceKitLsp_label_for_symbol(symbol)
    ELSE None

\* Faulty variant: xcrun is tried before swiftly.
resolve_adapter_xcrun_first(user_provided_debug_adapter_path, worktree) ==
    IF IsSome(user_provided_debug_adapter_path)
    THEN Ok(<<Unwrap(user_provided_debug_adapter_path), <<>> >>)
    ELSE IF IsSome(which(worktree, "xcrun"))
    THEN Ok(<<Unwrap(which(worktree, "xcrun")), <<"lldb-dap">> >>)
    ELSE IF IsSome(which(worktree, "swiftly"))
    THEN Ok(<<Unwrap(which(worktree, "swiftly")), <<"run", "lldb-dap">> >>)
    ELSE IF IsSome(which(worktree, "lldb-dap"))
    THEN Ok(<<Unwrap(which(worktree, "lldb-dap")), <<>> >>)
    ELSE Err(<<"Could not find lldb-dap", "">>)

\* The (command, arguments) chain of get_dap_binary
resolve_adapter(user_provided_debug_adapter_path, worktree) ==
    IF IsSome(user_provided_debug_adapter_path)
    THEN Ok(<<Unwrap(user_provided_debug_adapter_path), <<>> >>)
    ELSE IF IsSome(which(worktree, "swiftly"))
    THEN Ok(<<Unwrap(which(worktree, "swiftly")), <<"run", "lldb-dap">> >>)
    ELSE IF IsSome(which(worktree, "xcrun"))
    THEN Ok(<<Unwrap(which(worktree, "xcrun")), <<"lldb-dap">> >>)
    ELSE IF IsSome(which(worktree, "lldb-dap"))
    THEN Ok(<<Unwrap(which(worktree, "lldb-dap")), <<>> >>)
    ELSE Err(<<"Could not find lldb-dap", "">>)

\* Faulty variant: a request that is not "launch" starts an attach.
get_dap_binary_coerce(adapter_name, config, user_provided_debug_adapter_path, worktree) ==
    IF adapter_name # ADAPTER_NAME
    THEN Err(<<"Cannot create binary for adapter: ", adapter_name>>)
    ELSE LET configuration == config
             parsed == from_str(config)
         IN
    IF ~parsed.ok THEN Err(parsed.err)
    ELSE LET request == IF parsed.val.request = "launch" THEN "Launch" ELSE "Attach"
             found == resolve_adapter(user_provided_debug_adapter_path, worktree)
         IN
    IF ~found.ok THEN Err(found.err)
    ELSE Ok([command |-> Some(found.val[1]),
             arguments |-> found.val[2],
             envs |-> parsed.val.env,
             cwd |-> Some(UnwrapOr(parsed.val.cwd, worktree.root_path)),
             connection |-> None,
             request_args |-> [configuration |-> configuration, request |-> request]])

\* Faulty variant: the adapter executable is looked for before the
\* configuration is read.
get_dap_binary_adapter_first(adapter_name, config, user_provided_debug_adapter_path, worktree) ==
    IF adapter_name # ADAPTER_NAME
    THEN Err(<<"Cannot create binary for adapter: ", adapter_name>>)
    ELSE LET configuration == config
             parsed == from_str(config)
             found == resolve_adapter(user_provided_debug_adapter_path, worktree)
         IN
    IF ~found.ok THEN Err(found.err)
    ELSE IF ~parsed.ok THEN Err(parsed.err)
    ELSE IF parsed.val.request \notin {"launch", "attach"}
    THEN Err(<<UnexpectedRequest,
               parsed.val.request>>)
    ELSE LET request == IF parsed.val.request = "launch" THEN "Launch" ELSE "Attach"
         IN
         Ok([command |-> Some(found.val[1]),
             arguments |-> found.val[2],
             envs |-> parsed.val.env,
             cwd |-> Some(UnwrapOr(parsed.val.cwd, worktree.root_path)),
             connection |-> None,
             request_args |-> [configuration |-> configuration, request |-> request]])

SwiftExtension_get_dap_binary(adapter_name, config, user_provided_debug_adapter_path, worktree) ==
    IF adapter_name # ADAPTER_NAME
    THEN Err(<<"Cannot create binary for adapter: ", adapter_name>>)
    ELSE LET configuration == config
             parsed == from_str(config)
         IN
    IF ~parsed.ok THEN Err(parsed.err)
    ELSE IF parsed.val.request \notin {"launch", "attach"}
    THEN Err(<<UnexpectedRequest,
               parsed.val.request>>)
    ELSE LET request == IF parsed.val.request = "launch" THEN "Launch" ELSE "Attach"
             found == resolve_adapter(user_provided_debug_adapter_path, worktree)
         IN
    IF ~found.ok THEN Err(found.err)
    ELSE Ok([command |-> Some(found.val[1]),
             arguments |-> found.val[2],
             envs |-> parsed.val.env,
             cwd |-> Some(UnwrapOr(parsed.val.cwd, worktree.root_path)),
             connection |-> None,
             request_args |-> [configuration |-> configuration, request |-> request]])

\* Faulty variant: a value of request that is not "launch" is taken as an attach.
dap_request_kind_coerce(adapter_name, config) ==
    IF adapter_name # ADAPTER_NAME
    THEN Err(<<"Cannot create binary for adapter: ", adapter_name>>)
    ELSE LET request == ValueGet(config, "request") IN
         IF IsSome(request) /\ ValueEqStr(Unwrap(request), "launch") THEN Ok("Launch")
         ELSE IF IsSome(request) THEN Ok("Attach")
         ELSE Err(<<MissingRequest,
                    "">>)

\* Faulty variant: the two recognized strings are compared with the variant names.
dap_request_kind_capitalized(adapter_name, config) ==
    IF adapter_name # ADAPTER_NAME
    THEN Err(<<"Cannot create binary for adapter: ", adapter_name>>)
    ELSE LET request == ValueGet(config, "request") IN
         IF IsSome(request) /\ ValueEqStr(Unwrap(request), "Launch") THEN Ok("Launch")
         ELSE IF IsSome(request) /\ ValueEqStr(Unwrap(request), "Attach") THEN Ok("Attach")
         ELSE IF IsSome(request)
         THEN Err(<<UnexpectedRequest,
                    Unwrap(request)>>)
         ELSE Err(<<MissingRequest,
                    "">>)

SwiftExtension_dap_request_kind(adapter_name, config) ==
    IF adapter_name # ADAPTER_NAME
    THEN Err(<<"Cannot create binary for adapter: ", adapter_name>>)
    ELSE LET request == ValueGet(config, "request") IN
         IF IsSome(request) /\ ValueEqStr(Unwrap(request), "launch") THEN Ok("Launch")
         ELSE IF IsSome(request) /\ ValueEqStr(Unwrap(request), "attach") THEN Ok("Attach")
         ELSE IF IsSome(request)
         THEN Err(<<UnexpectedRequest,
                    Unwrap(request)>>)
         ELSE Err(<<MissingRequest,
                    "">>)

\* Faulty variant: the attach arm fills in the fields of a launch.
dap_config_to_scenario_attach_as_launch(zed_scenario) ==
    LET request == zed_scenario.request
        config ==
            IF request.variant = "Launch"
            THEN to_string([program |-> Some(request.program),
                            env |-> request.envs,
                            cwd |-> request.cwd,
                            request |-> "launch",
                            pid |-> None,
                            stop_on_entry |-> zed_scenario.stop_on_entry])
            ELSE to_string([program |-> Some(""),
                            env |-> {},
                            request |-> "launch",
                            pid |-> request.process_id,
                            cwd |-> None,
                            stop_on_entry |-> None])
    IN Ok([adapter |-> zed_scenario.adapter,
           label |-> zed_scenario.label,
           config |-> config,
           tcp_connection |-> None,
           build |-> None])

SwiftExtension_dap_config_to_scenario(zed_scenario) ==
    LET request == zed_scenario.request
        config ==
            IF request.variant = "Launch"
            THEN to_string([program |-> Some(request.program),
                            env |-> request.envs,
                            cwd |-> request.cwd,
                            request |-> "launch",
                            pid |-> None,
                            stop_on_entry |-> zed_scenario.stop_on_entry])
            ELSE to_string([program |-> None,
                            env |-> {},
                            request |-> "attach",
                            pid |-> request.process_id,
                            cwd |-> None,
                            stop_on_entry |-> zed_scenario.stop_on_entry])
    IN Ok([adapter |-> zed_scenario.adapter,
           label |-> zed_scenario.label,
           config |-> config,
           tcp_connection |-> None,
           build |-> None])

----------------------------------------------------------------------------
(* The state machine: one action per host callback *)

\* SwiftExtension::new() in any state of the host's settings and worktree.
Init ==
    /\ sourcekit_lsp = None
    /\ lspSettings \in {f \in [ServerIds -> UNION {LspSettingsSet(id) : id \in ServerIds}] :
                           \A id \in ServerIds : f[id] \in LspSettingsSet(id)}
    /\ whichTable \in {f \in [WhichNames -> Option({FoundPath(n) : n \in WhichNames})] :
                          \A n \in WhichNames : f[n] \in Option({FoundPath(n)})}
    /\ ret = NoRet
    /\ previousCommand = None

\* Faulty variant: the instance keeps the command it resolved first and
\* answers every later call with it.
language_server_command_cached ==
    /\ ret = NoRet
    /\ \E language_server_id \in ServerIds :
         LET result ==
                 IF language_server_id = SERVER_ID /\ IsSome(sourcekit_lsp)
                 THEN Unwrap(sourcekit_lsp)
                 ELSE SwiftExtension_language_server_command(
                          language_server_id, Worktree)
         IN /\ sourcekit_lsp' = IF language_server_id = SERVER_ID
                                THEN Some(result)
                                ELSE sourcekit_lsp
            /\ ret' = [op |-> "language_server_command",
                       language_server_id |-> language_server_id,
                       result |-> result]
    /\ UNCHANGED <<lspSettings, whichTable, previousCommand>>

language_server_command ==
    /\ ret = NoRet
    /\ \E language_server_id \in ServerIds :
         /\ sourcekit_lsp' = IF language_server_id = SERVER_ID
                             THEN Some("SourceKitLsp")
                             ELSE sourcekit_lsp
         /\ ret' = [op |-> "language_server_command",
                    language_server_id |-> language_server_id,
                    result |-> SwiftExtension_language_server_command(
                                   language_server_id, Worktree)]
    /\ UNCHANGED <<lspSettings, whichTable, previousCommand>>

language_server_initialization_options ==
    /\ ret = NoRet
    /\ \E language_server_id \in ServerIds :
         ret' = [op |-> "language_server_initialization_options",
                 language_server_id |-> language_server_id,
                 result |-> SwiftExtension_language_server_initialization_options(
                                language_server_id, Worktree)]
    /\ UNCHANGED <<sourcekit_lsp, lspSettings, whichTable, previousCommand>>

label_for_completion ==
    /\ ret = NoRet
    /\ \E language_server_id \in ServerIds, completion \in Completions :
         ret' = [op |-> "label_for_completion",
                 language_server_id |-> language_server_id,
                 completion |-> completion,
                 result |-> SwiftExtension_label_for_completion(
                                sourcekit_lsp, language_server_id, completion)]
    /\ UNCHANGED <<sourcekit_lsp, lspSettings, whichTable, previousCommand>>

label_for_symbol ==
    /\ ret = NoRet
    /\ \E language_server_id \in ServerIds, symbol \in Symbols :
         ret' = [op |-> "label_for_symbol",
                 language_server_id |-> language_server_id,
                 symbol |-> symbol,
                 result |-> SwiftExtension_label_for_symbol(
                                sourcekit_lsp, language_server_id, symbol)]
    /\ UNCHANGED <<sourcekit_lsp, lspSettings, whichTable, previousCommand>>

get_dap_binary ==
    /\ ret = NoRet
    /\ \E adapter_name \in AdapterNames, config \in ConfigTexts,
          user_provided_debug_adapter_path \in Option({UserAdapterPath}) :
         ret' = [op |-> "get_dap_binary",
                 adapter_name |-> adapter_name,
                 config |-> config,
                 user_provided_debug_adapter_path |-> user_provided_debug_adapter_path,
                 result |-> SwiftExtension_get_dap_binary(
                                adapter_name, config,
                                user_provided_debug_adapter_path, Worktree)]
    /\ UNCHANGED <<sourcekit_lsp, lspSettings, whichTable, previousCommand>>

\* The host hands dap_request_kind the parsed value of a configuration text.
dap_request_kind ==
    /\ ret = NoRet
    /\ \E adapter_name \in AdapterNames, text \in ConfigTexts \ {InvalidText} :
         ret' = [op |-> "dap_request_kind",
                 adapter_name |-> adapter_name,
                 config |-> ParseValue(text),
                 result |-> SwiftExtension_dap_request_kind(adapter_name, ParseValue(text))]
    /\ UNCHANGED <<sourcekit_lsp, lspSettings, whichTable, previousCommand>>

dap_config_to_scenario ==
    /\ ret = NoRet
    /\ \E zed_scenario \in DebugConfigs :
         ret' = [op |-> "dap_config_to_scenario",
                 zed_scenario |-> zed_scenario,
                 result |-> SwiftExtension_dap_config_to_scenario(zed_scenario)]
    /\ UNCHANGED <<sourcekit_lsp, lspSettings, whichTable, previousCommand>>

\* Control returns to the host, which may then make its next call.
Return ==
    /\ ret # NoRet
    /\ ret' = NoRet
    /\ previousCommand' =
           IF ret.op = "language_server_command" /\ ret.language_server_id = SERVER_ID
           THEN Some(ret.result)
           ELSE previousCommand
    /\ UNCHANGED <<sourcekit_lsp, lspSettings, whichTable>>

\* Between calls the user edits the settings of a language server ...
SettingsChanged ==
    /\ ret = NoRet
    /\ \E id \in ServerIds :
         \E s \in LspSettingsSet(id) :
           /\ s # lspSettings[id]
           /\ lspSettings' = [lspSettings EXCEPT ![id] = s]
    /\ UNCHANGED <<sourcekit_lsp, whichTable, ret, previousCommand>>

\* ... or a tool is installed on, or removed from, the worktree's search path.
WorktreeChanged ==
    /\ ret = NoRet
    /\ \E name \in WhichNames :
         whichTable' = [whichTable EXCEPT
                           ![name] = IF IsSome(@) THEN None ELSE Some(FoundPath(name))]
    /\ UNCHANGED <<sourcekit_lsp, lspSettings, ret, previousCommand>>

Next ==
    \/ language_server_command
    \/ language_server_initialization_options
    \/ label_for_completion
    \/ label_for_symbol
    \/ get_dap_binary
    \/ dap_request_kind
    \/ dap_config_to_scenario
    \/ Return
    \/ SettingsChanged
    \/ WorktreeChanged

Spec == Init /\ [][Next]_vars

----------------------------------------------------------------------------
(* Properties.  Each is stated over the call being returned (ret) and the   *)
(* settings and worktree it was answered from, which do not change while a  *)
(* call is in flight.                                                       *)

LspCall == ret.op = "language_server_command" /\ ret.language_server_id = "sourcekit-lsp"
SettingsRead == lspSettings["sourcekit-lsp"].ok
Binary == lspSettings["sourcekit-lsp"].val.binary
PathConfigured == SettingsRead /\ IsSome(Binary) /\ IsSome(Unwrap(Binary).path)
NoPathConfigured == SettingsRead /\ ~(IsSome(Binary) /\ IsSome(Unwrap(Binary).path))
Found(name) == IsSome(whichTable[name])

\* C1: for sourcekit-lsp, when the settings supply a binary path, the command's
\* path is that path whatever the worktree lookup finds, and its arguments are
\* the settings' argument list when given and the empty list otherwise.
C1_ConfiguredPathWins ==
    (LspCall /\ PathConfigured) =>
        /\ ret.result.ok
        /\ ret.result.val.command = Unwrap(Unwrap(Binary).path)
        /\ ret.result.val.args =
               (IF IsSome(Unwrap(Binary).arguments)
                THEN Unwrap(Unwrap(Binary).arguments) ELSE <<>>)

C1_Witness ==
    /\ LspCall /\ PathConfigured /\ Found("sourcekit-lsp")
    /\ ret.result.ok
    /\ ret.result.val.command = "/configured/sourcekit-lsp"
    /\ ret.result.val.args = <<"--log-level">>

\* C2: for sourcekit-lsp, when the settings (read without error) supply no
\* path and the worktree lookup succeeds, the command is the discovered path
\* with the empty argument list and the worktree's shell environment, never
\* /usr/bin/xcrun.
C2_DiscoveredPath ==
    (LspCall /\ NoPathConfigured /\ Found("sourcekit-lsp")) =>
        /\ ret.result.ok
        /\ ret.result.val.command = Unwrap(whichTable["sourcekit-lsp"])
        /\ ret.result.val.command # "/usr/bin/xcrun"
        /\ ret.result.val.args = <<>>
        /\ ret.result.val.env = ShellEnv

\* the settings have a binary section with arguments but no path
C2_Witness ==
    /\ LspCall /\ NoPathConfigured /\ Found("sourcekit-lsp")
    /\ IsSome(Binary) /\ Unwrap(Binary).arguments = Some(<<"--log-level">>)
    /\ ret.result.ok
    /\ ret.result.val.command = "/found/sourcekit-lsp"

\* C3: for sourcekit-lsp, when the settings (read without error) supply no
\* path and the worktree lookup finds nothing, the call succeeds with
\* /usr/bin/xcrun and the single argument sourcekit-lsp.
C3_XcrunFallback ==
    (LspCall /\ NoPathConfigured /\ ~Found("sourcekit-lsp")) =>
        /\ ret.result.ok
        /\ ret.result.val.command = "/usr/bin/xcrun"
        /\ ret.result.val.args = <<"sourcekit-lsp">>

C3_Witness ==
    /\ LspCall /\ NoPathConfigured /\ ~Found("sourcekit-lsp")
    /\ ret.result.ok
    /\ ret.result.val.command = "/usr/bin/xcrun"

\* C4 as claimed: the command's environment is the setting's declared variables
\* with a configured path, the shell environment with a discovered path, and
\* empty with the /usr/bin/xcrun fallback.
C4_EnvPerTier ==
    (LspCall /\ SettingsRead) =>
        /\ ret.result.ok
        /\ ret.result.val.env =
               (IF PathConfigured THEN UnwrapOr(Unwrap(Binary).env, {})
                ELSE IF Found("sourcekit-lsp") THEN ShellEnv
                ELSE {})

\* C4 as amended: in all three tiers the command's environment is the worktree's
\* full shell environment; the setting's declared variables are not consulted.
C4_EnvIsShellEnv ==
    (LspCall /\ SettingsRead) =>
        /\ ret.result.ok
        /\ ret.result.val.env = ShellEnv

\* a configured path whose setting declares other variables than the shell's
C4_Witness ==
    /\ LspCall /\ PathConfigured
    /\ Unwrap(Binary).env = Some({<<"SOURCEKIT_LOGGING", "3">>})
    /\ ret.result.ok
    /\ ret.result.val.command = "/configured/sourcekit-lsp"
    /\ ret.result.val.env = {<<"PATH", "/usr/bin">>, <<"HOME", "/home/dev">>}

\* C5: for a server id other than sourcekit-lsp, in every facade state,
\* language_server_command returns an 'Unknown language server' error and the
\* two label requests return None.
C5_UnknownServerId ==
    /\ (ret.op = "language_server_command" /\ ret.language_server_id # "sourcekit-lsp") =>
           /\ ~ret.result.ok
           /\ ret.result.err = <<"Unknown language server: ", ret.language_server_id>>
    /\ (ret.op \in {"label_for_completion", "label_for_symbol"}
        /\ ret.language_server_id # "sourcekit-lsp") =>
           ret.result = <<>>

\* the instance exists and the same completion would get a label from it
C5_Witness ==
    /\ ret.op = "label_for_completion"
    /\ ret.language_server_id = "other-lsp"
    /\ sourcekit_lsp # <<>>
    /\ SourceKitLsp_label_for_completion(ret.completion) # <<>>
    /\ ret.result = <<>>

HasRequest(value) == value.t = "object" /\ "request" \in DOMAIN value.o

\* C6: dap_request_kind for adapter Swift returns Launch for request "launch",
\* Attach for request "attach", an 'Unexpected value' error for any other
\* present value, and a different 'Missing required' error when it is absent.
C6_RequestKind ==
    (ret.op = "dap_request_kind" /\ ret.adapter_name = "Swift") =>
        /\ (HasRequest(ret.config) /\ ret.config.o["request"] = JStr("launch"))
               => ret.result = Ok("Launch")
        /\ (HasRequest(ret.config) /\ ret.config.o["request"] = JStr("attach"))
               => ret.result = Ok("Attach")
        /\ (HasRequest(ret.config)
            /\ ret.config.o["request"] \notin {JStr("launch"), JStr("attach")})
               => /\ ~ret.result.ok
                  /\ ret.result.err[1] = UnexpectedRequest
                  /\ ret.result.err[2] = ret.config.o["request"]
        /\ ~HasRequest(ret.config)
               => /\ ~ret.result.ok
                  /\ ret.result.err[1] = MissingRequest
                  /\ ret.result.err[1] # UnexpectedRequest

C6_Witness ==
    /\ ret.op = "dap_request_kind" /\ ret.adapter_name = "Swift"
    /\ HasRequest(ret.config) /\ ret.config.o["request"] = JStr("debug")
    /\ ~ret.result.ok

ScenarioCall == ret.op = "dap_config_to_scenario"
HostRequest == ret.zed_scenario.request

\* C7: dap_request_kind applied to the configuration dap_config_to_scenario
\* produced returns Launch for a host Launch request and Attach for a host
\* Attach request, with or without a pid.
C7_RoundTrip ==
    ScenarioCall =>
        /\ ret.result.ok
        /\ SwiftExtension_dap_request_kind("Swift", ParseValue(ret.result.val.config))
               = Ok(HostRequest.variant)

C7_Witness ==
    /\ ScenarioCall
    /\ HostRequest.variant = "Attach" /\ HostRequest.process_id = <<>>
    /\ ret.result.ok
    /\ SwiftExtension_dap_request_kind("Swift", ParseValue(ret.result.val.config))
           = Ok("Attach")

Written == ParseValue(ret.result.val.config).o
OptionWritten(key, opt, value) ==
    IF opt = <<>> THEN key \notin DOMAIN Written
    ELSE key \in DOMAIN Written /\ Written[key] = value

\* C8: dap_config_to_scenario always succeeds; a Launch request is written as
\* request "launch" with program, cwd and env and no pid; an Attach request as
\* request "attach" with the pid when given, no program, no cwd and an empty
\* env; stop_on_entry is carried over in both cases.
C8_ScenarioShape ==
    ScenarioCall =>
        /\ ret.result.ok
        /\ ret.result.val.config.valid
        /\ ret.result.val.config.top.t = "object"
        /\ IF HostRequest.variant = "Launch"
           THEN /\ Written["request"] = JStr("launch")
                /\ "program" \in DOMAIN Written
                /\ Written["program"] = JStr(HostRequest.program)
                /\ OptionWritten("cwd", HostRequest.cwd,
                                 JStr(UnwrapOr(HostRequest.cwd, "")))
                /\ Written["env"] = JMap(HostRequest.envs)
                /\ "pid" \notin DOMAIN Written
           ELSE /\ Written["request"] = JStr("attach")
                /\ OptionWritten("pid", HostRequest.process_id,
                                 JNum(UnwrapOr(HostRequest.process_id, 0)))
                /\ "program" \notin DOMAIN Written
                /\ "cwd" \notin DOMAIN Written
                /\ Written["env"] = JMap({})
        /\ OptionWritten("stopOnEntry", ret.zed_scenario.stop_on_entry,
                         JBool(UnwrapOr(ret.zed_scenario.stop_on_entry, FALSE)))

C8_Witness ==
    /\ ScenarioCall
    /\ HostRequest.variant = "Attach" /\ HostRequest.process_id = <<1>>
    /\ ret.zed_scenario.stop_on_entry = <<TRUE>>
    /\ ret.result.ok
    /\ Written["request"] = JStr("attach")
    /\ Written["pid"] = JNum(1)

DapCall == ret.op = "get_dap_binary" /\ ret.adapter_name = "Swift"
Members == ret.config.top.o
HasMember(key) == \E i \in 1..Len(Members) : Members[i][1] = key
MemberIs(key, value) == \E i \in 1..Len(Members) : Members[i] = <<key, value>>
\* an object whose request is one of the two kinds and whose other fields have
\* the types of SwiftDebugConfig
WellFormed ==
    /\ ret.config.valid /\ ret.config.top.t = "object"
    /\ MemberIs("request", JStr("launch")) \/ MemberIs("request", JStr("attach"))
    /\ \A i \in 1..Len(Members) :
         /\ Members[i][1] = "program" => Members[i][2].t = "string"
         /\ Members[i][1] = "pid" => (Members[i][2].t = "number" /\ Members[i][2].n >= 0)

\* C9: get_dap_binary for adapter Swift with a well-formed config takes the
\* user-provided path (no arguments) if given; else swiftly with [run, lldb-dap];
\* else xcrun with [lldb-dap]; else lldb-dap with no arguments; else it fails
\* with "Could not find lldb-dap".
C9_AdapterPrecedence ==
    (DapCall /\ WellFormed) =>
        IF ret.user_provided_debug_adapter_path # <<>>
        THEN /\ ret.result.ok
             /\ ret.result.val.command = ret.user_provided_debug_adapter_path
             /\ ret.result.val.arguments = <<>>
        ELSE IF Found("swiftly")
        THEN /\ ret.result.ok
             /\ ret.result.val.command = whichTable["swiftly"]
             /\ ret.result.val.arguments = <<"run", "lldb-dap">>
        ELSE IF Found("xcrun")
        THEN /\ ret.result.ok
             /\ ret.result.val.command = whichTable["xcrun"]
             /\ ret.result.val.arguments = <<"lldb-dap">>
        ELSE IF Found("lldb-dap")
        THEN /\ ret.result.ok
             /\ ret.result.val.command = whichTable["lldb-dap"]
             /\ ret.result.val.arguments = <<>>
        ELSE ret.result = Err(<<"Could not find lldb-dap", "">>)

C9_Witness ==
    /\ DapCall /\ WellFormed
    /\ ret.user_provided_debug_adapter_path = <<>>
    /\ ~Found("swiftly") /\ Found("xcrun") /\ Found("lldb-dap")
    /\ ret.result.ok
    /\ ret.result.val.command = <<"/found/xcrun">>
    /\ ret.result.val.arguments = <<"lldb-dap">>

LaunchWithoutProgram ==
    /\ DapCall /\ WellFormed
    /\ MemberIs("request", JStr("launch"))
    /\ ~HasMember("program")
AdapterFound ==
    \/ ret.user_provided_debug_adapter_path # <<>>
    \/ Found("swiftly") \/ Found("xcrun") \/ Found("lldb-dap")

\* C10 as claimed: get_dap_binary given a config with request "launch" and no
\* program field returns an error rather than a debug adapter binary.
C10_MissingProgramRejected ==
    LaunchWithoutProgram => ~ret.result.ok

\* C10 as amended: only request is required.  A configuration without a
\* request field is rejected and never defaulted; a configuration with request
\* "launch" and no program field is accepted with program absent, and
\* get_dap_binary returns a binary of kind Launch whenever an adapter
\* executable is found.
C10_OnlyRequestRequired ==
    /\ (DapCall /\ ret.config.valid /\ ret.config.top.t = "object"
        /\ ~HasMember("request")) => ~ret.result.ok
    /\ (LaunchWithoutProgram /\ AdapterFound) =>
           /\ ret.result.ok
           /\ ret.result.val.request_args.request = "Launch"
           /\ ret.result.val.request_args.configuration = ret.config

C10_Witness ==
    /\ LaunchWithoutProgram /\ AdapterFound
    /\ ret.result.ok
    /\ ret.result.val.request_args.request = "Launch"

----------------------------------------------------------------------------
(* Properties of the label synthesizer, stated over the label requests the  *)
(* facade passes on to it (server id sourcekit-lsp, instance present).      *)

CompletionCall ==
    /\ ret.op = "label_for_completion"
    /\ ret.language_server_id = "sourcekit-lsp"
    /\ sourcekit_lsp # <<>>
SymbolCall ==
    /\ ret.op = "label_for_symbol"
    /\ ret.language_server_id = "sourcekit-lsp"
    /\ sourcekit_lsp # <<>>
KindIs(k) == ret.completion.kind = <<k>>
Label == ret.completion.label
Detail == ret.completion.detail
HasDetailText == Detail # <<>> /\ Detail[1] # <<>>
HasParen(text) == \E i \in 1..Len(text) : text[i] = "("
HasArrow(text) == \E i \in 1..(Len(text) - 1) : text[i] = "-" /\ text[i + 1] = ">"
\* the text selected by the byte range [a, b)
Slice(text, a, b) == SubSeq(text, a + 1, b)

Foo == <<"f","o","o">>
FooCall == <<"f","o","o","(",")">>
IntText == <<"I","n","t">>
FuncFoo == <<"f","u","n","c"," ","f","o","o","(",")"," ","{","}">>
FuncFooInt ==
    <<"f","u","n","c"," ","f","o","o","(",")"," ","-",">"," ","I","n","t"," ","{","}">>

\* C11 as claimed: a Function completion gets the code func <label> -> <detail> {}
\* with the arrow omitted iff no detail text was supplied; label "foo" gives
\* exactly "func foo() {}" without detail and "func foo() -> Int {}" with
\* detail "Int".
C11_FunctionLabelAsClaimed ==
    (CompletionCall /\ KindIs("Function")) =>
        /\ ret.result # <<>>
        /\ HasArrow(ret.result[1].code) <=> HasDetailText
        /\ (Label = Foo /\ Detail = <<>>) => ret.result[1].code = FuncFoo
        /\ (Label = Foo /\ Detail = <<IntText>>) => ret.result[1].code = FuncFooInt

\* C11 as amended: the label is used verbatim, parentheses included.  A
\* Function completion whose label contains "(" gets the code
\* func <label>[ -> <detail>] {}, the arrow omitted iff the detail is absent or
\* empty; label "foo()" gives exactly "func foo() {}" without detail and
\* "func foo() -> Int {}" with detail "Int"; a label without "(", such as
\* "foo", gets no label at all.
C11_FunctionLabel ==
    (CompletionCall /\ KindIs("Function")) =>
        IF HasParen(Label)
        THEN /\ ret.result # <<>>
             /\ ret.result[1].code =
                    <<"f","u","n","c"," ">> \o Label
                    \o (IF HasDetailText THEN <<" ","-",">"," ">> \o Detail[1] ELSE <<>>)
                    \o <<" ","{","}">>
             /\ HasArrow(ret.result[1].code) <=> HasDetailText
             /\ (Label = FooCall /\ Detail = <<>>) => ret.result[1].code = FuncFoo
             /\ (Label = FooCall /\ Detail = <<IntText>>)
                    => ret.result[1].code = FuncFooInt
        ELSE ret.result = <<>>

\* an empty detail: present, but no arrow is written
C11_Witness ==
    /\ CompletionCall /\ KindIs("Function")
    /\ Label = FooCall /\ Detail = <<(<<>>)>>
    /\ ret.result # <<>>
    /\ ret.result[1].code = FuncFoo

EnumCase == <<"e","n","u","m"," ","E","n","u","m"," ","{"," ","c","a","s","e"," ">>
\* the byte offset of the first "(" of the text, or its length without one
FirstParenOrEnd(text, e) ==
    /\ e \in 0..Len(text)
    /\ \A j \in 1..e : text[j] # "("
    /\ e < Len(text) => text[e + 1] = "("

\* C12: an EnumMember completion always gets a label whose code is
\* enum Enum { case <label> }, whose highlighted range covers exactly <label>
\* and whose filter range runs from 0 to the first "(" of the label, or over
\* the whole label without one; label "bar(x:)" gives a filter range covering
\* only "bar".
C12_EnumMemberLabel ==
    (CompletionCall /\ KindIs("EnumMember")) =>
        /\ ret.result # <<>>
        /\ ret.result[1].code = EnumCase \o Label \o <<" ", "}">>
        /\ Len(ret.result[1].spans) = 1
        /\ ret.result[1].spans[1].t = "code_range"
        /\ Slice(ret.result[1].code, ret.result[1].spans[1].start,
                 ret.result[1].spans[1].end) = Label
        /\ ret.result[1].spans[1].start = Len(EnumCase)
        /\ ret.result[1].filter_range.start = 0
        /\ FirstParenOrEnd(Label, ret.result[1].filter_range.end)
        /\ Label = <<"b","a","r","(","x",":",")">> =>
               /\ ret.result[1].filter_range = [start |-> 0, end |-> 3]
               /\ Slice(Label, 0, 3) = <<"b","a","r">>

C12_Witness ==
    /\ CompletionCall /\ KindIs("EnumMember")
    /\ Label = <<"b","a","r","(","x",":",")">>
    /\ ret.result # <<>>
    /\ ret.result[1].filter_range = [start |-> 0, end |-> 3]

\* the keyword each kind puts before the label to build the snippet
SyntheticPrefix ==
    CASE KindIs("Function") -> <<"f","u","n","c"," ">>
      [] KindIs("Variable") \/ KindIs("Value") -> <<"v","a","r"," ">>
      [] KindIs("TypeParameter") -> <<"t","y","p","e","a","l","i","a","s"," ">>
      [] KindIs("EnumMember") -> EnumCase
      [] OTHER -> <<>>
ValidRange(r, text) == 0 <= r.start /\ r.start <= r.end /\ r.end <= Len(text)

\* C13: whenever a completion gets a label, the filter range is a valid
\* sub-range of the code (of the original label when the code is empty), every
\* highlighted code range is a valid sub-range of the code, and no highlighted
\* range covers the synthetic keyword (func, var, typealias, enum Enum { case)
\* the snippet starts with.
C13_RangesValid ==
    (CompletionCall /\ ret.result # <<>>) =>
        LET code == ret.result[1].code
            spans == ret.result[1].spans
        IN /\ ValidRange(ret.result[1].filter_range,
                         IF code = <<>> THEN Label ELSE code)
           /\ Len(SyntheticPrefix) <= Len(code)
           /\ SubSeq(code, 1, Len(SyntheticPrefix)) = SyntheticPrefix
           /\ \A i \in 1..Len(spans) :
                spans[i].t = "code_range" =>
                    /\ ValidRange(spans[i], code)
                    /\ spans[i].start >= Len(SyntheticPrefix)

C13_Witness ==
    /\ CompletionCall /\ KindIs("Variable") /\ ret.result # <<>>
    /\ ret.result[1].spans[1].start = 4
    /\ ret.result[1].spans[1].end = Len(ret.result[1].code)

\* The label the host displays is the text of the spans in order; the filter
\* range is a range of that label.
SymbolKeyword ==
    CASE ret.symbol.kind \in {"Method", "Function"} -> <<"f","u","n","c"," ">>
      [] ret.symbol.kind = "Class" -> <<"c","l","a","s","s"," ">>
      [] ret.symbol.kind = "Struct" -> <<"s","t","r","u","c","t"," ">>
      [] ret.symbol.kind = "Enum" -> <<"e","n","u","m"," ">>
      [] ret.symbol.kind \in {"Variable", "Constant"} ->
           <<"v","a","r","/","l","e","t"," ">>
      [] OTHER -> <<>>

\* C14: label_for_symbol gives func <name>, class <name>, struct <name>,
\* enum <name> and var/let <name> for the five groups of kinds, the highlighted
\* range being the whole code and the filter range selecting exactly the bare
\* name within that label (not the keyword); every other kind gets no label.
C14_SymbolLabel ==
    SymbolCall =>
        IF SymbolKeyword = <<>> THEN ret.result = <<>>
        ELSE /\ ret.result # <<>>
             /\ ret.result[1].code = SymbolKeyword \o ret.symbol.name
             /\ ret.result[1].spans =
                    <<[t |-> "code_range", start |-> 0,
                       end |-> Len(ret.result[1].code)]>>
             /\ ValidRange(ret.result[1].filter_range, ret.result[1].code)
             /\ Slice(ret.result[1].code, ret.result[1].filter_range.start,
                      ret.result[1].filter_range.end) = ret.symbol.name

RecognizedKinds ==
    {"Class", "Enum", "Interface", "Keyword", "Module", "Struct", "EnumMember",
     "Function", "TypeParameter", "Value", "Variable"}

\* C18: label_for_completion returns no label exactly when the completion has
\* no kind, the kind is not one of the eleven rendered, the kind is Function
\* and the label has no "(", or the kind is TypeParameter or Variable and no
\* detail is supplied; a Value completion without detail still gets a label.
C18_AbsentExactly ==
    CompletionCall =>
        (ret.result = <<>> <=>
            \/ ret.completion.kind = <<>>
            \/ ret.completion.kind[1] \notin RecognizedKinds
            \/ KindIs("Function") /\ ~HasParen(Label)
            \/ (KindIs("TypeParameter") \/ KindIs("Variable")) /\ Detail = <<>>)

C18_Witness ==
    /\ CompletionCall /\ KindIs("Value") /\ Detail = <<>>
    /\ ret.result # <<>>

----------------------------------------------------------------------------
(* Properties of the facade's lazily created instance *)

SymbolRequest == ret.op = "label_for_symbol" /\ ret.language_server_id = "sourcekit-lsp"
CompletionRequest ==
    ret.op = "label_for_completion" /\ ret.language_server_id = "sourcekit-lsp"
\* language_server_command has been called for sourcekit-lsp: such a call has
\* returned, or is the one being returned
CommandCalled == previousCommand # <<>> \/ LspCall

\* C15: for sourcekit-lsp the label requests return nothing as long as
\* language_server_command has not been called with that id; from the first
\* such call on, failed or not, the instance exists for good and every label
\* request is answered by the synthesizer; no other call (another server id,
\* initialization options, debug adapter) creates or removes the instance.
C15_LazyInstance ==
    /\ sourcekit_lsp # <<>> <=> CommandCalled
    /\ CompletionRequest =>
           ret.result = IF CommandCalled
                        THEN SourceKitLsp_label_for_completion(ret.completion)
                        ELSE <<>>
    /\ SymbolRequest =>
           ret.result = IF CommandCalled
                        THEN SourceKitLsp_label_for_symbol(ret.symbol)
                        ELSE <<>>

\* a symbol label is answered after a command call that failed
C15_Witness ==
    /\ SymbolRequest
    /\ previousCommand # <<>> /\ ~previousCommand[1].ok
    /\ ret.result # <<>>
    /\ ret.result = SourceKitLsp_label_for_symbol(ret.symbol)

\* C16: nothing resolved is kept from one call to the next: every
\* language_server_command call for sourcekit-lsp returns the command a first
\* call on a new facade returns for the settings and lookup results current
\* at that call, whatever earlier calls returned.
C16_NoCaching ==
    LspCall => ret.result = SwiftExtension_language_server_command("sourcekit-lsp", Worktree)

\* a later call answers differently from the call before it
C16_Witness ==
    /\ LspCall
    /\ previousCommand # <<>> /\ previousCommand[1].ok
    /\ ret.result.ok
    /\ ret.result.val.command # previousCommand[1].val.command

----------------------------------------------------------------------------
(* Properties of the debug adapter handlers, continued *)

ConfigValue == ParseValue(ret.config)
RequestMember == ValueGet(ConfigValue, "request")
KindOfConfig == SwiftExtension_dap_request_kind("Swift", ConfigValue)

\* C17: get_dap_binary and dap_request_kind read the request field alike: where
\* get_dap_binary succeeds, its request kind is the kind dap_request_kind
\* returns for the same configuration; where the request field is present and
\* is neither "launch" nor "attach", both fail.
C17_SameVocabulary ==
    (DapCall /\ ret.config.valid) =>
        /\ ret.result.ok =>
               /\ KindOfConfig.ok
               /\ KindOfConfig.val = ret.result.val.request_args.request
        /\ (RequestMember # <<>>
            /\ ~ValueEqStr(RequestMember[1], "launch")
            /\ ~ValueEqStr(RequestMember[1], "attach")) =>
               /\ ~ret.result.ok
               /\ ~KindOfConfig.ok

C17_Witness ==
    /\ DapCall /\ ret.config.valid
    /\ ret.result.ok
    /\ ret.result.val.request_args.request = "Attach"
    /\ KindOfConfig = [ok |-> TRUE, val |-> "Attach"]

\* the error of get_dap_binary is the one of the adapter lookup
NotFoundError == ret.result.err = <<"Could not find lldb-dap", "">>
\* ... or the one of the adapter name check
AdapterNameError ==
    ret.result.err = <<"Cannot create binary for adapter: ", ret.adapter_name>>

\* C19: get_dap_binary checks in a fixed order.  An adapter name other than
\* Swift fails with 'Cannot create binary for adapter' whatever the
\* configuration; otherwise a configuration that does not parse or whose
\* request is not "launch" or "attach" fails with the configuration error, with
\* or without a user-provided path and with or without an adapter on the
\* search path; "Could not find lldb-dap" is returned only for a configuration
\* that parsed with a recognized request.
C19_CheckOrder ==
    ret.op = "get_dap_binary" =>
        /\ ret.adapter_name # "Swift" => (~ret.result.ok /\ AdapterNameError)
        /\ (ret.adapter_name = "Swift" /\ ~WellFormed) =>
               /\ ~ret.result.ok
               /\ ~NotFoundError
               /\ ~AdapterNameError
               /\ ret.result.err[1] \in
                      {"expected value", "invalid type", "invalid value",
                       "missing field", "duplicate field", UnexpectedRequest}
        /\ (~ret.result.ok /\ NotFoundError) =>
               (ret.adapter_name = "Swift" /\ WellFormed)

\* an unknown request is reported although no adapter could be found either
C19_Witness ==
    /\ DapCall
    /\ MemberIs("request", JStr("debug"))
    /\ ret.user_provided_debug_adapter_path = <<>>
    /\ ~AdapterFound
    /\ ~ret.result.ok
    /\ ret.result.err = <<UnexpectedRequest, "debug">>

====
